---------------------------- MODULE Spec2Model ----------------------------
(***************************************************************************)
(* The crawl engine of scripts/scrape-academic-info.py                     *)
(* (class RMITAcademicInfoScraper): the shared url_queue, the visited_urls *)
(* and content_hashes sets, the crawler_worker threads and the monitoring  *)
(* and shutdown code of scrape_academic_information; and, each as a        *)
(* program of its own, the incremental scraper of agent.py                 *)
(* (ScraperState, process_category, normalize_url, retry_request) and the  *)
(* result loop of scripts/scrape-courses.py (scrape_all_courses).          *)
(*                                                                         *)
(* One behaviour runs one program; the variables of the others keep the    *)
(* values they have when that program is not run.                          *)
(*                                                                         *)
(* Time is abstracted: a fetch may take arbitrarily long (requests'        *)
(* timeout bounds each socket operation, not the whole download), so the   *)
(* controller's 10 s poll and the workers' 5 s dequeue timeout may fire    *)
(* between any two worker steps.                                           *)
(***************************************************************************)
EXTENDS Integers, Sequences, FiniteSets, TLC

\* The sentinel url of the poison pill (None, 0).
None == "None"

\* Keys of CONFIG["content_categories"] (two of the thirteen stand for all).
Categories == {"policies", "faq"}

\* The default of categorize_content; it is no key of CONFIG["content_categories"].
GeneralInformation == "general-information"

\* Stall tolerance of the scenarios (the script's literal is 6).
StallTolerance == 2

\* A page as the collaborators see it:
\*   fetch    "ok", or "none" when extract_content_from_page returns None before
\*            the fingerprint check (status != 200, exception, short content)
\*   content  <<first 8000 characters, rest>> of the extracted text
\*   category what categorize_content returns: a key of Categories,
\*            GeneralInformation, or None for program content; "error" stands
\*            for an exception raised after the fingerprint check
\*   links    the in-scope links of the page, in document order
Page(fetch, content, category, links) ==
    [fetch |-> fetch, content |-> content, category |-> category, links |-> links]

\* CONFIG and the site of one session; every scenario gives its own values
\* (the script's are max_depth 5, max_pages 12000, max_queue_size 12000,
\* max_threads 5, save_progress_every 50 and a target of 6000 records).
Config(name, start, prio, pages, depth, maxPages, maxQueue, threads, every, target, faulty) ==
    [name |-> name, start_urls |-> start, priority |-> prio, page |-> pages,
     max_depth |-> depth, max_pages |-> maxPages, max_queue_size |-> maxQueue,
     max_threads |-> threads, save_progress_every |-> every,
     target |-> target, stall |-> StallTolerance, disk_faulty |-> faulty]

\* seed [A]; A links to B, C; B links to A, C; different bodies.
Coverage ==
    Config("coverage", <<"A">>, {},
           [u \in {"A", "B", "C"} |->
              CASE u = "A" -> Page("ok", <<1, 1>>, "policies", <<"B", "C">>)
                [] u = "B" -> Page("ok", <<2, 1>>, "faq", <<"A", "C">>)
                [] OTHER   -> Page("ok", <<3, 1>>, "policies", <<>>)],
           2, 10, 6, 2, 2, 10, FALSE)

\* The same site when the text of A matches no keyword of any category.
CoverageDefault ==
    Config("coverage-default", <<"A">>, {},
           [u \in {"A", "B", "C"} |->
              CASE u = "A" -> Page("ok", <<1, 1>>, GeneralInformation, <<"B", "C">>)
                [] u = "B" -> Page("ok", <<2, 1>>, "faq", <<"A", "C">>)
                [] OTHER   -> Page("ok", <<3, 1>>, "policies", <<>>)],
           2, 10, 6, 2, 2, 10, FALSE)

\* max_queue_size 2 and three seeds.
Capacity ==
    Config("capacity", <<"A", "B", "C">>, {"B"},
           [u \in {"A", "B", "C"} |->
              CASE u = "A" -> Page("ok", <<1, 1>>, "policies", <<"B", "C", "C">>)
                [] u = "B" -> Page("ok", <<2, 1>>, "faq", <<>>)
                [] OTHER   -> Page("none", <<3, 1>>, "policies", <<>>)],
           2, 10, 2, 2, 2, 10, FALSE)

\* B and C carry one body; C differs from A only after the stored prefix; D is
\* program content; E gets the default category.
Duplicates ==
    Config("duplicates", <<"A", "D">>, {},
           [u \in {"A", "B", "C", "D", "E"} |->
              CASE u = "A" -> Page("ok", <<1, 1>>, "policies", <<"E", "B", "C">>)
                [] u = "B" -> Page("ok", <<1, 2>>, "faq", <<>>)
                [] u = "C" -> Page("ok", <<1, 2>>, "faq", <<>>)
                [] u = "D" -> Page("ok", <<2, 1>>, None, <<>>)
                [] OTHER   -> Page("ok", <<3, 1>>, GeneralInformation, <<"A">>)],
           5, 10, 6, 2, 2, 10, FALSE)

\* A chain deeper than max_depth, small page and record limits, a disk that
\* may refuse a write.
Limits ==
    Config("limits", <<"A", "B">>, {"A"},
           [u \in {"A", "B", "C", "D"} |->
              CASE u = "A" -> Page("ok", <<1, 1>>, "policies", <<"C">>)
                [] u = "B" -> Page("ok", <<2, 1>>, "faq", <<>>)
                [] u = "C" -> Page("ok", <<3, 1>>, "error", <<"D">>)
                [] OTHER   -> Page("ok", <<4, 1>>, "faq", <<>>)],
           1, 3, 6, 2, 1, 2, TRUE)

\* Three workers on two seeds, one linking to the other.
Trio ==
    Config("trio", <<"A", "B">>, {"B"},
           [u \in {"A", "B"} |->
              CASE u = "A" -> Page("ok", <<1, 1>>, "policies", <<"B">>)
                [] OTHER   -> Page("ok", <<2, 1>>, "faq", <<>>)],
           2, 10, 6, 3, 2, 10, FALSE)

\* One page under two spellings: A links to A/, which serves the same body.
Aliases ==
    Config("aliases", <<"A">>, {},
           [u \in {"A", "A/"} |->
              CASE u = "A" -> Page("ok", <<1, 1>>, "policies", <<"A/">>)
                [] OTHER   -> Page("ok", <<1, 1>>, "policies", <<>>)],
           2, 10, 6, 2, 2, 10, FALSE)

\* max_depth 0: the link of the seed is one level too deep.
Deep ==
    Config("deep", <<"A">>, {},
           [u \in {"A", "B"} |->
              CASE u = "A" -> Page("ok", <<1, 1>>, "policies", <<"B">>)
                [] OTHER   -> Page("ok", <<2, 1>>, "faq", <<>>)],
           0, 10, 6, 2, 2, 10, FALSE)

Scenarios ==
    {Coverage, CoverageDefault, Capacity, Duplicates, Limits, Trio, Aliases, Deep}

\* The thread numbers of the scenarios.
ThreadIds == UNION {1 .. c.max_threads : c \in Scenarios}

VARIABLES
    \* scripts/scrape-academic-info.py
    cfg,             \* CONFIG and the site (fixed for the session)
    ctrl,            \* the controller: SEEDING, RUNNING, DRAINING, STOPPED
    last_total,      \* scrape_academic_information's local
    stall_count,     \* scrape_academic_information's local
    exit_reason,     \* which break left the monitoring loop
    sentinels_put,   \* poison pills put so far
    joined,          \* threads joined so far
    join_timeouts,   \* threads whose join(timeout=10) returned with the thread alive
    final_save,      \* "pending", "done" or "failed"
    url_queue,       \* self.url_queue
    visited_urls,    \* self.visited_urls
    content_hashes,  \* self.content_hashes
    all_content,     \* self.all_content
    stats,           \* self.stats
    lock,            \* self.lock: the set of its holders across steps (empty: free)
    output_file,     \* what the last successful write left on disk
    pc,              \* where each worker thread is
    task,            \* each worker's (url, depth)
    links,           \* each worker's links still to enqueue
    exit_by,         \* how each worker left its loop
    claim_count,     \* history: successful visited check-and-adds per url
    fetch_count,     \* history: session.get calls per url
    seeds_enqueued,  \* history: seed tasks put by the controller
    alive_at_drain,  \* history: workers alive when DRAINING began
    sentinels_got,   \* history: poison pills each worker dequeued
    \* agent.py, process_category and __main__
    site,              \* the urls crawl_for_links returned and the pages behind them
    run,               \* which run of the program this is (1 is the first)
    agent_pc,          \* "loop", "returned" or "interrupted"
    state,             \* ScraperState.state in memory
    state_file,        \* scraper_state.json on disk (<<>>: no file)
    next_url,          \* index of the for loop of process_category
    processed_urls,    \* process_category's local
    category_content,  \* process_category's local all_content
    json_file,         \* what save_as_json left on disk, one entry per write
    skipped_unchanged, \* process_category's local
    errors,            \* process_category's local: the urls of the error list
    fetched_before,    \* history: urls fetched successfully in an earlier run
    requested,         \* history: the url of every requests.get of this run
    \* agent.py, normalize_url
    raw_url,             \* the argument
    normalized,          \* the successive results normalize_url(raw_url), twice over
    variant,             \* raw_url with one ignorable change
    variant_normalized,  \* normalize_url(variant), once computed
    \* agent.py, retry_request
    responses,       \* what requests.get gives at each call
    max_retries,     \* the parameter
    attempt,         \* the loop variable
    waits,           \* the time.sleep calls made
    retry_result,    \* "pending", or how the call ended
    requests_made,   \* history: requests.get calls
    \* scripts/scrape-courses.py, scrape_all_courses
    futures,         \* the results of the futures in completion order
    completed,       \* i of the as_completed loop
    courses,         \* self.courses
    courses_file,    \* what save_database_files left on disk
    courses_pc,      \* "loop", or "saved" after save_results
    \* a checkpoint write: open(path, 'w') and json.dump
    old_contents,    \* the complete file before the write
    new_contents,    \* the document being written
    disk,            \* what is in the file now
    write_pc,        \* "start", "dump" or "closed"
    \* crawl_for_links of agent.py
    graph,             \* the link graph and the parameters of the call
    to_visit,          \* the list of (url, depth)
    visited,           \* the set of normalized urls
    all_relevant_urls, \* the list that is returned
    crawl_pc,          \* "loop" or "returned"
    visit_log,         \* history: every visited.add, in order
    found_log,         \* history: the depth of each url of all_relevant_urls
    \* track_school of scripts/scrape-courses.py, called from the pool threads
    schools,         \* self.schools: school name -> the number in its id
    school_lock,     \* self.lock: the set of its holders
    calls,           \* the names each thread has still to pass to track_school
    track_pc,        \* where each thread is in its call
    school_id,       \* each thread's local school_id
    returned,        \* history: (thread, name, id) of every call that returned
    \* chunk_text of agent.py
    text,            \* the argument, a sequence of characters
    chunk_size,      \* the argument
    overlap,         \* the argument
    start,           \* the local, an index counted from 0
    chunks,          \* the list that is returned
    chunk_pc,        \* "called", "loop" or "returned"
    windows          \* history: (start, end) of every turn of the loop

crawler_vars == <<cfg, ctrl, last_total, stall_count, exit_reason, sentinels_put,
                  joined, join_timeouts, final_save, url_queue, visited_urls,
                  content_hashes, all_content, stats, lock, output_file, pc, task,
                  links, exit_by, claim_count, fetch_count, seeds_enqueued,
                  alive_at_drain, sentinels_got>>

agent_vars == <<site, run, agent_pc, state, state_file, next_url, processed_urls,
                category_content, json_file, skipped_unchanged, errors,
                fetched_before, requested>>

norm_vars == <<raw_url, normalized, variant, variant_normalized>>

retry_vars == <<responses, max_retries, attempt, waits, retry_result, requests_made>>

courses_vars == <<futures, completed, courses, courses_file, courses_pc>>

write_vars == <<old_contents, new_contents, disk, write_pc>>

\* The programs of the sections that follow the crawler and the incremental
\* scraper's loops, and those of the sections before them.
link_vars == <<graph, to_visit, visited, all_relevant_urls, crawl_pc, visit_log,
               found_log>>

school_vars == <<schools, school_lock, calls, track_pc, school_id, returned>>

chunk_vars == <<text, chunk_size, overlap, start, chunks, chunk_pc, windows>>

tool_vars == <<write_vars, link_vars, school_vars, chunk_vars>>

main_vars == <<crawler_vars, agent_vars, norm_vars, retry_vars, courses_vars>>

vars == <<main_vars, tool_vars>>

\* What each program leaves alone.
not_crawler == <<agent_vars, norm_vars, retry_vars, courses_vars, tool_vars>>
not_agent == <<crawler_vars, norm_vars, retry_vars, courses_vars, tool_vars>>
not_norm == <<crawler_vars, agent_vars, retry_vars, courses_vars, tool_vars>>
not_retry == <<crawler_vars, agent_vars, norm_vars, courses_vars, tool_vars>>
not_courses == <<crawler_vars, agent_vars, norm_vars, retry_vars, tool_vars>>

ctrl_vars == <<ctrl, last_total, stall_count, exit_reason, sentinels_put,
               joined, join_timeouts, final_save, seeds_enqueued, alive_at_drain>>

Workers == 1 .. cfg.max_threads

Urls == DOMAIN cfg.page

StatKeys == Categories \cup {"total", "duplicates"}

(***************************************************************************)
(* Strings are sequences of characters. A url is written with the          *)
(* delimiters of normalize_url and three words that hold no delimiter:     *)
(* "p" (any text), "id" (one of the retained parameter names) and "ID"     *)
(* (the same in upper case).                                               *)
(***************************************************************************)

UrlChars == {"p", "id", "ID", "/", "#", "?", "&", "="}

\* Longest url string normalize_url is applied to directly.
MaxUrlLen == 4

UrlStrings == UNION {[1 .. n -> UrlChars] : n \in 0 .. MaxUrlLen}

\* c in s
Contains(s, c) == \E i \in 1 .. Len(s) : s[i] = c

\* s.find(c) counted from 1; 0 when c is not in s
Find(s, c) ==
    IF Contains(s, c)
    THEN CHOOSE i \in 1 .. Len(s) : s[i] = c /\ \A j \in 1 .. i - 1 : s[j] # c
    ELSE 0

\* s.split(c, 1)
SplitOnce(s, c) ==
    LET i == Find(s, c)
    IN IF i = 0 THEN <<s>>
       ELSE <<SubSeq(s, 1, i - 1), SubSeq(s, i + 1, Len(s))>>

\* s.split(c)
RECURSIVE Split(_, _)
Split(s, c) ==
    LET parts == SplitOnce(s, c)
    IN IF Len(parts) = 1 THEN <<s>>
       ELSE <<parts[1]>> \o Split(parts[2], c)

\* s.rstrip(c)
RECURSIVE RStrip(_, _)
RStrip(s, c) ==
    IF s # <<>> /\ s[Len(s)] = c THEN RStrip(SubSeq(s, 1, Len(s) - 1), c)
    ELSE s

\* c.join(parts)
RECURSIVE Join(_, _)
Join(parts, c) ==
    IF parts = <<>> THEN <<>>
    ELSE IF Len(parts) = 1 THEN parts[1]
         ELSE parts[1] \o <<c>> \o Join(Tail(parts), c)

\* s.lower()
Lower(s) == [i \in 1 .. Len(s) |-> IF s[i] = "ID" THEN "id" ELSE s[i]]

\* ['id', 'code', 'course', 'program'], "id" standing for the four
ImportantParams == {<<"id">>}

\* '=' in param, and the key before the first '=' is a retained name
IsImportant(param) ==
    Contains(param, "=") /\ Lower(SplitOnce(param, "=")[1]) \in ImportantParams

\* The loop over query.split('&'): the retained parameters, in order.
RECURSIVE SelectParams(_)
SelectParams(params) ==
    IF params = <<>> THEN <<>>
    ELSE (IF IsImportant(Head(params)) THEN <<Head(params)>> ELSE <<>>)
             \o SelectParams(Tail(params))

\* normalize_url of agent.py
NormalizeUrl(u) ==
    LET stripped == RStrip(Split(u, "#")[1], "/")
    IN IF Contains(stripped, "?")
       THEN LET base == SplitOnce(stripped, "?")[1]
                query == SplitOnce(stripped, "?")[2]
                important_params == SelectParams(Split(query, "&"))
            IN IF important_params # <<>>
               THEN base \o <<"?">> \o Join(important_params, "&")
               ELSE base
       ELSE stripped

\* get_content_hash: a digest of the whole extracted text.
GetContentHash(content) == content[1] * 10 + content[2]

\* content[:8000]
Truncate(content) == content[1]

\* The record extract_content_from_page returns for url (its links apart).
ContentData(url) ==
    [sourceUrl |-> url,
     content |-> Truncate(cfg.page[url].content),
     category |-> cfg.page[url].category,
     hash |-> GetContentHash(cfg.page[url].content)]

RECURSIVE SelectUrls(_, _, _)
SelectUrls(s, set, keep) ==
    IF s = <<>> THEN <<>>
    ELSE IF (Head(s) \in set) = keep
         THEN <<Head(s)>> \o SelectUrls(Tail(s), set, keep)
         ELSE SelectUrls(Tail(s), set, keep)

\* Whether the seeding loops put a seed when the queue holds n tasks.
SeedAdmitted(n) == TRUE

RECURSIVE PutSeeds(_, _)
PutSeeds(q, s) ==
    IF s = <<>> THEN q
    ELSE IF SeedAdmitted(Len(q))
         THEN PutSeeds(Append(q, <<Head(s), 0>>), Tail(s))
         ELSE PutSeeds(q, Tail(s))

\* priority_urls first, then regular_urls, each in start_urls order, depth 0.
SeedQueue ==
    PutSeeds(<<>>, SelectUrls(cfg.start_urls, cfg.priority, TRUE)
                   \o SelectUrls(cfg.start_urls, cfg.priority, FALSE))

\* The values of a program's variables in a behaviour that does not run it.
AgentOff ==
    /\ site = <<>>
    /\ run = 0
    /\ agent_pc = None
    /\ state = <<>>
    /\ state_file = <<>>
    /\ next_url = 0
    /\ processed_urls = {}
    /\ category_content = <<>>
    /\ json_file = <<>>
    /\ skipped_unchanged = 0
    /\ errors = <<>>
    /\ fetched_before = {}
    /\ requested = <<>>

NormOff ==
    /\ raw_url = <<>>
    /\ normalized = <<>>
    /\ variant = <<>>
    /\ variant_normalized = <<>>

RetryOff ==
    /\ responses = <<>>
    /\ max_retries = 0
    /\ attempt = 0
    /\ waits = <<>>
    /\ retry_result = None
    /\ requests_made = 0

CoursesOff ==
    /\ futures = <<>>
    /\ completed = 0
    /\ courses = <<>>
    /\ courses_file = <<>>
    /\ courses_pc = None

\* The values of the crawler's variables in a behaviour that does not run it.
NoCrawl == Config("none", <<>>, {}, <<>>, 0, 0, 0, 0, 1, 0, FALSE)

CrawlerOff ==
    /\ cfg = NoCrawl
    /\ ctrl = None
    /\ last_total = 0
    /\ stall_count = 0
    /\ exit_reason = None
    /\ sentinels_put = 0
    /\ joined = 0
    /\ join_timeouts = {}
    /\ final_save = None
    /\ url_queue = <<>>
    /\ visited_urls = {}
    /\ content_hashes = {}
    /\ all_content = <<>>
    /\ stats = <<>>
    /\ lock = {}
    /\ output_file = <<>>
    /\ pc = <<>>
    /\ task = <<>>
    /\ links = <<>>
    /\ exit_by = <<>>
    /\ claim_count = <<>>
    /\ fetch_count = <<>>
    /\ seeds_enqueued = 0
    /\ alive_at_drain = {}
    /\ sentinels_got = <<>>

WriteOff ==
    /\ old_contents = <<>>
    /\ new_contents = <<>>
    /\ disk = <<>>
    /\ write_pc = None

LinkOff ==
    /\ graph = <<>>
    /\ to_visit = <<>>
    /\ visited = {}
    /\ all_relevant_urls = <<>>
    /\ crawl_pc = None
    /\ visit_log = <<>>
    /\ found_log = <<>>

SchoolOff ==
    /\ schools = <<>>
    /\ school_lock = {}
    /\ calls = <<>>
    /\ track_pc = <<>>
    /\ school_id = <<>>
    /\ returned = <<>>

ChunkOff ==
    /\ text = <<>>
    /\ chunk_size = 0
    /\ overlap = 0
    /\ start = 0
    /\ chunks = <<>>
    /\ chunk_pc = None
    /\ windows = <<>>

ToolsOff == WriteOff /\ LinkOff /\ SchoolOff /\ ChunkOff

MainOff == CrawlerOff /\ AgentOff /\ NormOff /\ RetryOff /\ CoursesOff

Init ==
    /\ cfg \in Scenarios
    /\ ctrl = "SEEDING"
    /\ last_total = 0
    /\ stall_count = 0
    /\ exit_reason = None
    /\ sentinels_put = 0
    /\ joined = 0
    /\ join_timeouts = {}
    /\ final_save = "pending"
    /\ url_queue = <<>>
    /\ visited_urls = {}
    /\ content_hashes = {}
    /\ all_content = <<>>
    /\ stats = [k \in StatKeys |-> 0]
    /\ lock = {}
    /\ output_file = <<>>
    /\ pc = [w \in Workers |-> "unstarted"]
    /\ task = [w \in Workers |-> <<None, 0>>]
    /\ links = [w \in Workers |-> <<>>]
    /\ exit_by = [w \in Workers |-> None]
    /\ claim_count = [u \in Urls |-> 0]
    /\ fetch_count = [u \in Urls |-> 0]
    /\ seeds_enqueued = 0
    /\ alive_at_drain = {}
    /\ sentinels_got = [w \in Workers |-> 0]
    /\ AgentOff
    /\ NormOff
    /\ RetryOff
    /\ CoursesOff
    /\ ToolsOff

\* Seeding and thread start: no worker runs before the last seed is put.
Seed ==
    /\ ctrl = "SEEDING"
    /\ url_queue' = SeedQueue
    /\ seeds_enqueued' = Len(SeedQueue)
    /\ pc' = [w \in Workers |-> "get"]
    /\ ctrl' = "RUNNING"
    /\ UNCHANGED <<not_crawler, cfg, last_total, stall_count, exit_reason,
                   sentinels_put, joined, join_timeouts, final_save, visited_urls,
                   content_hashes, all_content, stats, lock, output_file, task,
                   links, exit_by, claim_count, fetch_count, alive_at_drain,
                   sentinels_got>>


(***************************************************************************)
(* crawler_worker                                                          *)
(***************************************************************************)

\* What the worker does after the link loop: task_done(), back to get().
AfterLinks(rest) == IF rest = <<>> THEN "get" ELSE "links"

\* Mutant of WorkerExit: continue where the code breaks.
WorkerExitContinue(w, how) ==
    /\ pc' = [pc EXCEPT ![w] = "get"]
    /\ exit_by' = [exit_by EXCEPT ![w] = how]

\* The worker leaves its loop (the break of a poison pill or of the bare except).
WorkerExit(w, how) ==
    /\ pc' = [pc EXCEPT ![w] = "done"]
    /\ exit_by' = [exit_by EXCEPT ![w] = how]

\* url_queue.get(timeout=5) returns a task; a poison pill ends the loop.
Get(w) ==
    /\ pc[w] = "get"
    /\ url_queue # <<>>
    /\ url_queue' = Tail(url_queue)
    /\ IF Head(url_queue)[1] = None
       THEN /\ WorkerExit(w, "sentinel")
            /\ sentinels_got' = [sentinels_got EXCEPT ![w] = @ + 1]
            /\ UNCHANGED task
       ELSE /\ pc' = [pc EXCEPT ![w] = "claim"]
            /\ task' = [task EXCEPT ![w] = Head(url_queue)]
            /\ UNCHANGED <<exit_by, sentinels_got>>
    /\ UNCHANGED <<not_crawler, cfg, visited_urls, content_hashes, all_content, stats, lock,
                   output_file, links, claim_count, fetch_count>>
    /\ UNCHANGED ctrl_vars

\* url_queue.get(timeout=5) raises Empty: the bare except breaks the loop.
GetTimeout(w) ==
    /\ pc[w] = "get"
    /\ url_queue = <<>>
    /\ WorkerExit(w, "timeout")
    /\ UNCHANGED <<not_crawler, cfg, url_queue, visited_urls, content_hashes, all_content, stats,
                   lock, output_file, task, links, claim_count, fetch_count,
                   sentinels_got>>
    /\ UNCHANGED ctrl_vars

\* Mutant of AlreadyVisited: the visited check left out.
AlreadyVisitedNever(url) == FALSE

\* url in self.visited_urls
AlreadyVisited(url) == url \in visited_urls

\* Mutant of TooDeep: the depth test left out.
TooDeepNever(depth) == FALSE

\* depth > CONFIG["max_depth"]
TooDeep(depth) == depth > cfg.max_depth

\* with self.lock: skip if already visited or too deep, else add to visited_urls.
Claim(w) ==
    /\ pc[w] = "claim"
    /\ lock = {}
    /\ IF AlreadyVisited(task[w][1]) \/ TooDeep(task[w][2])
       THEN /\ pc' = [pc EXCEPT ![w] = "get"]
            /\ UNCHANGED <<visited_urls, claim_count>>
       ELSE /\ visited_urls' = visited_urls \cup {task[w][1]}
            /\ claim_count' = [claim_count EXCEPT ![task[w][1]] = @ + 1]
            /\ pc' = [pc EXCEPT ![w] = "extract"]
    /\ UNCHANGED <<not_crawler, cfg, url_queue, content_hashes, all_content, stats, lock,
                   output_file, task, links, exit_by, fetch_count, sentinels_got>>
    /\ UNCHANGED ctrl_vars

\* extract_content_from_page up to the fingerprint check: the request and the
\* parsing. Every exception is caught there and gives None.
Fetch(w) ==
    /\ pc[w] = "extract"
    /\ fetch_count' = [fetch_count EXCEPT ![task[w][1]] = @ + 1]
    /\ pc' = [pc EXCEPT ![w] =
                IF cfg.page[task[w][1]].fetch = "ok" THEN "dedup" ELSE "get"]
    /\ UNCHANGED <<not_crawler, cfg, url_queue, visited_urls, content_hashes, all_content, stats,
                   lock, output_file, task, links, exit_by, claim_count,
                   sentinels_got>>
    /\ UNCHANGED ctrl_vars

\* Mutant of IsDuplicateContent: the fingerprint check left out.
IsDuplicateContentNever(h) == FALSE

\* content_hash in self.content_hashes
IsDuplicateContent(h) == h \in content_hashes

\* extract_content_from_page from the fingerprint check on: with self.lock the
\* check-and-add of content_hashes, then categorisation and extraction, which
\* touch nothing shared. None for a duplicate, for program content and for an
\* exception.
Dedup(w) ==
    /\ pc[w] = "dedup"
    /\ lock = {}
    /\ LET page == cfg.page[task[w][1]]
           h == GetContentHash(page.content)
       IN IF IsDuplicateContent(h)
          THEN /\ stats' = [stats EXCEPT !["duplicates"] = @ + 1]
               /\ pc' = [pc EXCEPT ![w] = "get"]
               /\ UNCHANGED content_hashes
          ELSE /\ content_hashes' = content_hashes \cup {h}
               /\ pc' = [pc EXCEPT ![w] =
                           IF page.category \in {None, "error"} THEN "get"
                           ELSE "append"]
               /\ UNCHANGED stats
    /\ UNCHANGED <<not_crawler, cfg, url_queue, visited_urls, all_content, lock, output_file,
                   task, links, exit_by, claim_count, fetch_count, sentinels_got>>
    /\ UNCHANGED ctrl_vars

\* with self.lock: links = content_data.pop('links'); all_content.append(...).
\* The lock stays held for the stats update.
AcceptAppend(w) ==
    /\ pc[w] = "append"
    /\ lock = {}
    /\ lock' = {w}
    /\ all_content' = Append(all_content, ContentData(task[w][1]))
    /\ links' = [links EXCEPT ![w] = cfg.page[task[w][1]].links]
    /\ pc' = [pc EXCEPT ![w] = "stats"]
    /\ UNCHANGED <<not_crawler, cfg, url_queue, visited_urls, content_hashes, stats, output_file,
                   task, exit_by, claim_count, fetch_count, sentinels_got>>
    /\ UNCHANGED ctrl_vars

\* Whether self.stats[category] += 1 finds its key.
HasStatsKey(category) == category \in DOMAIN stats

\* self.stats["total"] % CONFIG["save_progress_every"] == 0
SaveDue(total) == total % cfg.save_progress_every = 0

\* The rest of the accept section, still under the lock: the two counters and
\* the periodic save. A KeyError of the category counter or a failed write
\* leaves the with block (releasing the lock) and reaches the bare except.
AcceptStats(w) ==
    /\ pc[w] = "stats"
    /\ lock = {w}
    /\ lock' = {}
    /\ LET category == cfg.page[task[w][1]].category
           counted == [stats EXCEPT ![category] = @ + 1, !["total"] = @ + 1]
       IN IF ~HasStatsKey(category)
          THEN /\ WorkerExit(w, "exception")
               /\ UNCHANGED <<stats, output_file>>
          ELSE /\ stats' = counted
               /\ \/ /\ output_file' = IF SaveDue(counted["total"])
                                       THEN all_content ELSE output_file
                     /\ pc' = [pc EXCEPT ![w] = AfterLinks(links[w])]
                     /\ UNCHANGED exit_by
                  \/ /\ SaveDue(counted["total"])
                     /\ cfg.disk_faulty
                     /\ WorkerExit(w, "exception")
                     /\ UNCHANGED output_file
    /\ UNCHANGED <<not_crawler, cfg, url_queue, visited_urls, content_hashes, all_content, task,
                   links, claim_count, fetch_count, sentinels_got>>
    /\ UNCHANGED ctrl_vars

\* self.url_queue.qsize() < CONFIG["max_queue_size"]
QueueHasRoom == Len(url_queue) < cfg.max_queue_size

\* One turn of the link loop: with self.lock, put (link, depth + 1) unless the
\* link is visited or the queue is at its limit.
EnqueueLink(w) ==
    /\ pc[w] = "links"
    /\ lock = {}
    /\ links[w] # <<>>
    /\ url_queue' = IF Head(links[w]) \notin visited_urls /\ QueueHasRoom
                    THEN Append(url_queue, <<Head(links[w]), task[w][2] + 1>>)
                    ELSE url_queue
    /\ links' = [links EXCEPT ![w] = Tail(@)]
    /\ pc' = [pc EXCEPT ![w] = AfterLinks(Tail(links[w]))]
    /\ UNCHANGED <<not_crawler, cfg, visited_urls, content_hashes, all_content, stats, lock,
                   output_file, task, exit_by, claim_count, fetch_count,
                   sentinels_got>>
    /\ UNCHANGED ctrl_vars

Worker(w) ==
    \/ Get(w)
    \/ GetTimeout(w)
    \/ Claim(w)
    \/ Fetch(w)
    \/ Dedup(w)
    \/ AcceptAppend(w)
    \/ AcceptStats(w)
    \/ EnqueueLink(w)

(***************************************************************************)
(* scrape_academic_information: monitoring, shutdown, final save           *)
(***************************************************************************)

\* sum(1 for t in threads if t.is_alive())
ActiveThreads == Cardinality({w \in Workers : pc[w] # "done"})

\* queue_size == 0 and active_threads == 0
Complete(queue_size, active_threads) == queue_size = 0 /\ active_threads = 0

\* stall_count > 6, with the scenario's tolerance for the literal
Stalled(count) == count > cfg.stall

\* Mutant of StallCount: the counter is reset at every poll.
StallCountReset(current_total) == 0

\* stall_count after the progress test of this poll: one more when the total
\* has not moved since the last poll, 0 when it has.
StallCount(current_total) ==
    IF current_total = last_total THEN stall_count + 1 ELSE 0

\* Mutant of BreakReason: the page limit left out.
BreakReasonNoPageLimit(current_total, queue_size, active_threads, stalls) ==
    IF Complete(queue_size, active_threads) THEN "complete"
    ELSE IF current_total = last_total /\ Stalled(stalls) THEN "stall"
    ELSE IF queue_size >= cfg.max_queue_size THEN "capacity"
    ELSE IF current_total >= cfg.target THEN "target"
    ELSE None

\* The checks of one poll, in the order of the loop body; the first that holds
\* breaks.
BreakReason(current_total, queue_size, active_threads, stalls) ==
    IF Complete(queue_size, active_threads) THEN "complete"
    ELSE IF current_total = last_total /\ Stalled(stalls) THEN "stall"
    ELSE IF Cardinality(visited_urls) >= cfg.max_pages THEN "max_pages"
    ELSE IF queue_size >= cfg.max_queue_size THEN "capacity"
    ELSE IF current_total >= cfg.target THEN "target"
    ELSE None

\* One turn of the monitoring loop: time.sleep(10), the three reads under
\* self.lock, then the checks. (len(self.visited_urls) is read a moment after
\* the lock is released; the turn is taken as one step.)
Poll ==
    /\ ctrl = "RUNNING"
    /\ lock = {}
    /\ LET current_total == stats["total"]
           queue_size == Len(url_queue)
           active_threads == ActiveThreads
           complete == Complete(queue_size, active_threads)
           stalls == StallCount(current_total)
           reason == BreakReason(current_total, queue_size, active_threads, stalls)
       IN /\ stall_count' = IF complete THEN stall_count ELSE stalls
          /\ last_total' = IF complete THEN last_total ELSE current_total
          /\ exit_reason' = reason
          /\ ctrl' = IF reason = None THEN "RUNNING" ELSE "DRAINING"
          /\ alive_at_drain' = IF reason = None THEN alive_at_drain
                               ELSE {w \in Workers : pc[w] # "done"}
    /\ UNCHANGED <<not_crawler, cfg, sentinels_put, joined, join_timeouts, final_save, url_queue,
                   visited_urls, content_hashes, all_content, stats, lock,
                   output_file, pc, task, links, exit_by, claim_count, fetch_count,
                   seeds_enqueued, sentinels_got>>

\* for _ in range(CONFIG["max_threads"]): self.url_queue.put((None, 0))
InjectSentinel ==
    /\ ctrl = "DRAINING"
    /\ sentinels_put < cfg.max_threads
    /\ url_queue' = Append(url_queue, <<None, 0>>)
    /\ sentinels_put' = sentinels_put + 1
    /\ UNCHANGED <<not_crawler, cfg, ctrl, last_total, stall_count, exit_reason, joined,
                   join_timeouts, final_save, visited_urls, content_hashes,
                   all_content, stats, lock, output_file, pc, task, links, exit_by,
                   claim_count, fetch_count, seeds_enqueued, alive_at_drain,
                   sentinels_got>>

\* Mutant of JoinReturns: join() without its timeout.
JoinBlocks(t) == pc[t] = "done"

\* Whether t.join(timeout=10) returns: when thread t has ended, and after ten
\* seconds when it has not.
JoinReturns(t) == TRUE

\* t.join(timeout=10) for the next thread: it returns when the thread has ended
\* or when the ten seconds have passed, and the loop goes on either way. After
\* the last join the session is STOPPED.
JoinThread ==
    /\ ctrl = "DRAINING"
    /\ sentinels_put = cfg.max_threads
    /\ joined < cfg.max_threads
    /\ JoinReturns(joined + 1)
    /\ joined' = joined + 1
    /\ join_timeouts' = IF pc[joined + 1] # "done"
                        THEN join_timeouts \cup {joined + 1} ELSE join_timeouts
    /\ ctrl' = IF joined + 1 = cfg.max_threads THEN "STOPPED" ELSE "DRAINING"
    /\ UNCHANGED <<not_crawler, cfg, last_total, stall_count, exit_reason,
                   sentinels_put, final_save, url_queue, visited_urls,
                   content_hashes, all_content, stats, lock, output_file, pc, task,
                   links, exit_by, claim_count, fetch_count, seeds_enqueued,
                   alive_at_drain, sentinels_got>>

\* The final save_to_database_format(): the write of all_content, or the
\* exception of a failed write.
FinalSave ==
    /\ ctrl = "STOPPED"
    /\ final_save = "pending"
    /\ \/ /\ output_file' = all_content
          /\ final_save' = "done"
       \/ /\ cfg.disk_faulty
          /\ final_save' = "failed"
          /\ UNCHANGED output_file
    /\ UNCHANGED <<not_crawler, cfg, ctrl, last_total, stall_count, exit_reason,
                   sentinels_put, joined, join_timeouts, url_queue, visited_urls,
                   content_hashes, all_content, stats, lock, pc, task, links,
                   exit_by, claim_count, fetch_count, seeds_enqueued,
                   alive_at_drain, sentinels_got>>

Controller ==
    \/ Seed
    \/ Poll
    \/ InjectSentinel
    \/ JoinThread
    \/ FinalSave

Next == Controller \/ \E w \in Workers : Worker(w)

Spec == Init /\ [][Next]_vars

\* KeyboardInterrupt in the main thread while it is in the monitoring loop. The
\* exception leaves scrape_academic_information past the shutdown code; the
\* handler of __main__ calls save_to_database_format() when all_content is not
\* empty; then the program ends, and its daemon threads with it.
Interrupt ==
    /\ ctrl = "RUNNING"
    /\ ctrl' = "INTERRUPTED"
    /\ exit_reason' = "interrupt"
    /\ IF all_content # <<>>
       THEN \/ /\ output_file' = all_content
               /\ final_save' = "done"
            \/ /\ cfg.disk_faulty
               /\ final_save' = "failed"
               /\ UNCHANGED output_file
       ELSE /\ final_save' = "skipped"
            /\ UNCHANGED output_file
    /\ pc' = [w \in Workers |-> "done"]
    /\ exit_by' = [w \in Workers |-> IF pc[w] = "done" THEN exit_by[w] ELSE "killed"]
    /\ UNCHANGED <<not_crawler, cfg, last_total, stall_count, sentinels_put, joined,
                   join_timeouts, url_queue, visited_urls, content_hashes,
                   all_content, stats, lock, task, links, claim_count, fetch_count,
                   seeds_enqueued, alive_at_drain, sentinels_got>>

InterruptNext == Next \/ Interrupt

\* A session of the crawler that the user may interrupt.
InterruptSpec == Init /\ [][InterruptNext]_vars

\* The controller thread and every worker thread keep running.
FairSpec ==
    /\ Spec
    /\ WF_vars(Controller)
    /\ \A w \in ThreadIds : WF_vars(w \in Workers /\ Worker(w))

\* Only the controller thread is sure to keep running.
CtrlFairSpec == Spec /\ WF_vars(Controller)

(***************************************************************************)
(* retry_request of agent.py                                               *)
(***************************************************************************)

\* CONFIG["max_retries"]
MaxRetries == 3

\* What one requests.get gives: a 200 response, a 404 response, a response
\* whose raise_for_status raises HTTPError (500), or a RequestException.
Outcomes == {"200", "404", "500", "timeout"}

RetryInit ==
    /\ responses \in [1 .. MaxRetries -> Outcomes]
    /\ max_retries \in 0 .. MaxRetries
    /\ attempt = 0
    /\ waits = <<>>
    /\ retry_result = "pending"
    /\ requests_made = 0
    /\ CrawlerOff
    /\ AgentOff
    /\ NormOff
    /\ CoursesOff
    /\ ToolsOff

\* attempt == max_retries - 1
IsLastAttempt(a, m) == a = m - 1

\* Mutant of AttemptResult: a 404 response handled like any other failure.
AttemptResultRetry404(r, a, m) ==
    IF r = "200" THEN "response"
    ELSE IF IsLastAttempt(a, m) THEN "raised" ELSE "UnboundLocalError"

\* How the turn of attempt a ends when requests.get gives r.
AttemptResult(r, a, m) ==
    CASE r = "200" -> "response"
      [] r = "404" -> "returned None"
      [] OTHER -> IF IsLastAttempt(a, m) THEN "raised" ELSE "UnboundLocalError"

\* retry_request as its caller sees it, when every requests.get for the url
\* gives r: how the call ends and how many requests it made. No turn of the
\* loop is followed by another, so the call is its first turn.
RetryRequest(r, m) ==
    IF m = 0 THEN [result |-> "returned None", requests |-> 0]
    ELSE [result |-> AttemptResult(r, 0, m), requests |-> 1]

\* One turn of the for loop. A 200 response is returned, a 404 gives None, a
\* failure on the last attempt is raised again. After a failure on an earlier
\* attempt the handler ends, which unbinds e, and the warning that formats e
\* raises UnboundLocalError before time.sleep is reached: no turn is followed
\* by another.
RetryAttempt ==
    /\ retry_result = "pending"
    /\ attempt < max_retries
    /\ requests_made' = requests_made + 1
    /\ retry_result' = AttemptResult(responses[attempt + 1], attempt, max_retries)
    /\ UNCHANGED <<not_retry, responses, max_retries, attempt, waits>>

\* range(max_retries) is empty: the return None after the loop.
RetryExhausted ==
    /\ retry_result = "pending"
    /\ attempt >= max_retries
    /\ retry_result' = "returned None"
    /\ UNCHANGED <<not_retry, responses, max_retries, attempt, waits,
                   requests_made>>

RetryNext == RetryAttempt \/ RetryExhausted

RetrySpec == RetryInit /\ [][RetryNext]_vars

(***************************************************************************)
(* agent.py: ScraperState, process_category and the loop of __main__, for  *)
(* one category. crawl_for_links has returned site.urls.                   *)
(***************************************************************************)

\* How many times the program is run, one run after the other.
MaxRuns == 2

\* The characters of a url the scenarios name by one word.
Spelling(u) == IF u = "A/" THEN <<"A", "/">> ELSE <<u>>

\* A page of the incremental scraper:
\*   fetch  what every requests.get for the url gives: "ok" a 200 response,
\*          "404" a 404 response, "error" a RequestException
\*   body   response.text in the first and in the later runs
AgentPage(fetch, first, later) == [fetch |-> fetch, body |-> <<first, later>>]

\* response.text of url in run r
BodyAt(url, r) == site.page[url].body[IF r = 1 THEN 1 ELSE 2]

\* content_items and (is_relevant_content(...) or len(content_items) >= 5):
\* the bodies 1 and 2 hold relevant content, the body 0 does not.
IsRelevantContent(body) == body > 0

PageKinds ==
    {AgentPage("ok", 1, 1), AgentPage("ok", 1, 2), AgentPage("ok", 0, 0),
     AgentPage("ok", 0, 1), AgentPage("error", 1, 1), AgentPage("404", 1, 1)}

\* urls_to_process after the sort: two spellings of A around nothing else, then B.
AgentSites ==
    {[urls |-> <<"A", "A/", "B">>,
      page |-> [u \in {"A", "A/", "B"} |-> IF u = "B" THEN b ELSE a]] :
        a \in PageKinds, b \in PageKinds}

\* What load_state returns when there is no state file.
FreshState == [last_run |-> 0, scraped_urls |-> {}, content_hashes |-> <<>>]

\* ScraperState.load_state
LoadState == IF state_file = <<>> THEN FreshState ELSE state_file[1]

\* ScraperState.get_url_hash
GetUrlHash(url, content) == <<url, content>>

\* ScraperState.is_content_changed
IsContentChanged(url, content) ==
    \/ url \notin DOMAIN state.content_hashes
    \/ state.content_hashes[url] # GetUrlHash(url, content)

\* ScraperState.update_content_hash and mark_url_scraped
UpdateState(url, content) ==
    [state EXCEPT
        !.content_hashes =
            [u \in DOMAIN state.content_hashes \cup {url} |->
                IF u = url THEN GetUrlHash(url, content)
                ELSE state.content_hashes[u]],
        !.scraped_urls = @ \cup {url}]

\* ScraperState.save_state: last_run is set, the whole state is written.
SavedState == [state EXCEPT !.last_run = run]

\* The urls whose request succeeded in this run so far.
FetchedThisRun ==
    {site.urls[i] : i \in
        {j \in 1 .. next_url - 1 :
            /\ site.page[site.urls[j]].fetch = "ok"
            /\ \A k \in 1 .. j - 1 :
                  NormalizeUrl(Spelling(site.urls[k]))
                      # NormalizeUrl(Spelling(site.urls[j]))}}

\* state = ScraperState(...) with no state file, and process_category at the
\* head of its for loop.
AgentInit ==
    /\ site \in AgentSites
    /\ run = 1
    /\ agent_pc = "loop"
    /\ state = FreshState
    /\ state_file = <<>>
    /\ next_url = 1
    /\ processed_urls = {}
    /\ category_content = <<>>
    /\ json_file = <<>>
    /\ skipped_unchanged = 0
    /\ errors = <<>>
    /\ fetched_before = {}
    /\ requested = <<>>
    /\ CrawlerOff
    /\ NormOff
    /\ RetryOff
    /\ CoursesOff
    /\ ToolsOff

\* One turn of the for loop of process_category. A url whose normalized form
\* was seen is passed over. When retry_request returns None the loop body
\* raises "Failed after all retries"; that and every exception of the request
\* are caught and recorded in errors, and the loop goes on.
ProcessUrl ==
    /\ agent_pc = "loop"
    /\ next_url <= Len(site.urls)
    /\ next_url' = next_url + 1
    /\ LET url == site.urls[next_url]
           normalized_url == NormalizeUrl(Spelling(url))
           fetch == site.page[url].fetch
           response == RetryRequest(IF fetch = "ok" THEN "200"
                                    ELSE IF fetch = "404" THEN "404"
                                    ELSE "timeout", MaxRetries)
           content_text == BodyAt(url, run)
       IN IF normalized_url \in processed_urls
          THEN UNCHANGED <<processed_urls, errors, skipped_unchanged,
                           category_content, state, requested>>
          ELSE /\ processed_urls' = processed_urls \cup {normalized_url}
               /\ requested' = requested \o [i \in 1 .. response.requests |-> url]
               /\ IF response.result # "response"
                  THEN /\ errors' =
                              Append(errors,
                                     [url |-> url,
                                      error |-> IF response.result = "returned None"
                                                THEN "Failed after all retries"
                                                ELSE response.result])
                       /\ UNCHANGED <<skipped_unchanged, category_content, state>>
                  ELSE IF ~IsContentChanged(url, content_text)
                  THEN /\ skipped_unchanged' = skipped_unchanged + 1
                       /\ UNCHANGED <<errors, category_content, state>>
                  ELSE IF IsRelevantContent(content_text)
                  THEN /\ category_content' =
                              Append(category_content,
                                     [url |-> url, content |-> content_text])
                       /\ state' = UpdateState(url, content_text)
                       /\ UNCHANGED <<errors, skipped_unchanged>>
                  ELSE UNCHANGED <<errors, skipped_unchanged, category_content,
                                   state>>
    /\ UNCHANGED <<not_agent, site, run, agent_pc, state_file, json_file,
                   fetched_before>>

\* Mutant of HasContent: the early return left out.
HasContentAlways(content) == TRUE

\* Whether process_category goes on to save_as_json and save_state.
HasContent(content) == content # <<>>

\* After the for loop: return when nothing was accepted, else save_as_json and
\* state.save_state().
FinishCategory ==
    /\ agent_pc = "loop"
    /\ next_url > Len(site.urls)
    /\ agent_pc' = "returned"
    /\ IF HasContent(category_content)
       THEN /\ json_file' = category_content
            /\ state' = SavedState
            /\ state_file' = <<SavedState>>
       ELSE UNCHANGED <<json_file, state, state_file>>
    /\ UNCHANGED <<not_agent, site, run, next_url, processed_urls,
                   category_content, skipped_unchanged, errors, fetched_before,
                   requested>>

\* KeyboardInterrupt inside process_category: __main__ saves the state and
\* leaves its loop. category_content is kept here as the record of what the
\* abandoned call had accepted.
AgentInterrupt ==
    /\ agent_pc = "loop"
    /\ agent_pc' = "interrupted"
    /\ state' = SavedState
    /\ state_file' = <<SavedState>>
    /\ UNCHANGED <<not_agent, site, run, next_url, processed_urls,
                   category_content, json_file, skipped_unchanged, errors,
                   fetched_before, requested>>

\* The program is run again: the state comes from the file, the locals of
\* process_category start afresh.
Rerun ==
    /\ agent_pc \in {"returned", "interrupted"}
    /\ run < MaxRuns
    /\ run' = run + 1
    /\ agent_pc' = "loop"
    /\ state' = LoadState
    /\ next_url' = 1
    /\ processed_urls' = {}
    /\ category_content' = <<>>
    /\ skipped_unchanged' = 0
    /\ errors' = <<>>
    /\ requested' = <<>>
    /\ fetched_before' = fetched_before \cup FetchedThisRun
    /\ UNCHANGED <<not_agent, site, state_file, json_file>>

\* A run of the incremental scraper that no one interrupts.
AgentRun == ProcessUrl \/ FinishCategory \/ Rerun

AgentNext == ProcessUrl \/ FinishCategory \/ Rerun \/ AgentInterrupt

AgentSpec == AgentInit /\ [][AgentNext]_vars

\* A session of either program, left to run: the crawler with its controller
\* thread sure to keep running, or the incremental scraper with no interrupt.
SessionInit == Init \/ AgentInit

SessionNext == Next \/ AgentRun

SessionSpec ==
    /\ SessionInit
    /\ [][SessionNext]_vars
    /\ WF_vars(Controller)
    /\ WF_vars(AgentRun)

(***************************************************************************)
(* normalize_url of agent.py as a function of its own: applied to a url,   *)
(* to its own result, and to a variant of the url that differs from it     *)
(* only in what normalization is meant to ignore.                          *)
(***************************************************************************)

\* The part of u before its fragment, and the fragment with its '#'.
BeforeFragment(u) == Split(u, "#")[1]

FragmentOf(u) == SubSeq(u, Len(BeforeFragment(u)) + 1, Len(u))

\* The path of u, and what follows it (query and fragment).
PathOf(u) == SplitOnce(BeforeFragment(u), "?")[1]

AfterPath(u) == SubSeq(u, Len(PathOf(u)) + 1, Len(u))

\* Fragments and query parameters outside the retained names.
Fragments == {<<>>, <<"p">>, <<"id", "=", "p">>}

NoiseParams == {<<"p">>, <<"p", "=", "p">>, <<"p", "=", "id">>}

\* u with another fragment.
WithFragment(u, f) == BeforeFragment(u) \o <<"#">> \o f

\* u with one more '/' at the end of its path.
WithTrailingSlash(u) == PathOf(u) \o <<"/">> \o AfterPath(u)

\* u with the parameter n put in front of or behind its query.
WithQueryNoise(u, n, front) ==
    IF Contains(BeforeFragment(u), "?")
    THEN IF front
         THEN PathOf(u) \o <<"?">> \o n \o <<"&">>
                  \o SubSeq(u, Len(PathOf(u)) + 2, Len(u))
         ELSE BeforeFragment(u) \o <<"&">> \o n \o FragmentOf(u)
    ELSE BeforeFragment(u) \o <<"?">> \o n \o FragmentOf(u)

NormInit ==
    /\ raw_url \in {<<u>> : u \in UrlStrings}
    /\ normalized = <<>>
    /\ variant = <<>>
    /\ variant_normalized = <<>>
    /\ CrawlerOff
    /\ AgentOff
    /\ RetryOff
    /\ CoursesOff
    /\ ToolsOff

\* normalize_url(raw_url), then normalize_url of that result.
Normalize ==
    /\ raw_url # <<>>
    /\ Len(normalized) < 2
    /\ normalized' =
           Append(normalized,
                  NormalizeUrl(IF normalized = <<>> THEN raw_url[1]
                               ELSE normalized[Len(normalized)]))
    /\ UNCHANGED <<not_norm, raw_url, variant, variant_normalized>>

\* normalize_url of a variant of raw_url.
NormalizeVariant(v) ==
    /\ raw_url # <<>>
    /\ variant = <<>>
    /\ variant' = <<v>>
    /\ variant_normalized' = <<NormalizeUrl(v)>>
    /\ UNCHANGED <<not_norm, raw_url, normalized>>

AddFragment == \E f \in Fragments : NormalizeVariant(WithFragment(raw_url[1], f))

AddTrailingSlash == NormalizeVariant(WithTrailingSlash(raw_url[1]))

AddQueryNoise ==
    \E n \in NoiseParams, front \in BOOLEAN :
        NormalizeVariant(WithQueryNoise(raw_url[1], n, front))

NormNext == Normalize \/ AddFragment \/ AddTrailingSlash \/ AddQueryNoise

NormSpec == NormInit /\ [][NormNext]_vars

(***************************************************************************)
(* scripts/scrape-courses.py: the as_completed loop of scrape_all_courses, *)
(* which runs in the main thread. The pool threads only compute the        *)
(* results.                                                                *)
(***************************************************************************)

\* CONFIG["save_progress_every"] of the scenarios (the script's is 20).
CoursesSaveEvery == 2

\* How many urls load_urls_from_file returns.
MaxCourses == 5

\* What future.result() gives: a course record, None, or an exception.
FutureResults == {"course", "none", "exception"}

CoursesInit ==
    /\ futures \in [1 .. MaxCourses -> FutureResults]
    /\ completed = 0
    /\ courses = <<>>
    /\ courses_file = <<>>
    /\ courses_pc = "loop"
    /\ CrawlerOff
    /\ AgentOff
    /\ NormOff
    /\ RetryOff
    /\ ToolsOff

\* i % CONFIG["save_progress_every"] == 0
CourseSaveDue(i) == i % CoursesSaveEvery = 0

\* One turn of the loop over as_completed: a course is appended, and
\* save_progress() is called when the turn's number is due; None and an
\* exception only count as failed.
FutureCompleted ==
    /\ courses_pc = "loop"
    /\ completed < Len(futures)
    /\ completed' = completed + 1
    /\ IF futures[completed + 1] = "course"
       THEN /\ courses' = Append(courses, completed + 1)
            /\ courses_file' = IF CourseSaveDue(completed + 1)
                               THEN courses' ELSE courses_file
       ELSE UNCHANGED <<courses, courses_file>>
    /\ UNCHANGED <<not_courses, futures, courses_pc>>

\* save_results() after the loop.
SaveResults ==
    /\ courses_pc = "loop"
    /\ completed = Len(futures)
    /\ courses_file' = courses
    /\ courses_pc' = "saved"
    /\ UNCHANGED <<not_courses, futures, completed, courses>>

CoursesNext == FutureCompleted \/ SaveResults

CoursesSpec == CoursesInit /\ [][CoursesNext]_vars

(***************************************************************************)
(* A checkpoint write, as in ScraperState.save_state and in                *)
(* save_to_database_format: open(path, 'w'), then json.dump into the file. *)
(***************************************************************************)

\* Longest document, in the pieces json.dump writes one after the other.
MaxFileLen == 2

\* Complete documents; a complete JSON document is never empty.
Contents == UNION {[1 .. n -> {"a", "b"}] : n \in 1 .. MaxFileLen}

WriteInit ==
    /\ old_contents \in Contents
    /\ new_contents \in Contents
    /\ disk = old_contents
    /\ write_pc = "start"
    /\ MainOff
    /\ LinkOff
    /\ SchoolOff
    /\ ChunkOff

\* open(path, 'w') truncates the file at path.
OpenFile ==
    /\ write_pc = "start"
    /\ disk' = <<>>
    /\ write_pc' = "dump"
    /\ UNCHANGED <<main_vars, link_vars, school_vars, chunk_vars, old_contents, new_contents>>

\* json.dump writes the next piece of the document.
DumpPiece ==
    /\ write_pc = "dump"
    /\ Len(disk) < Len(new_contents)
    /\ disk' = Append(disk, new_contents[Len(disk) + 1])
    /\ UNCHANGED <<main_vars, link_vars, school_vars, chunk_vars, old_contents, new_contents, write_pc>>

\* The end of the with block.
CloseFile ==
    /\ write_pc = "dump"
    /\ Len(disk) = Len(new_contents)
    /\ write_pc' = "closed"
    /\ UNCHANGED <<main_vars, link_vars, school_vars, chunk_vars, old_contents, new_contents, disk>>

WriteNext == OpenFile \/ DumpPiece \/ CloseFile

WriteSpec == WriteInit /\ [][WriteNext]_vars

(***************************************************************************)
(* crawl_for_links of agent.py                                             *)
(***************************************************************************)

\* The calls: start url A on a graph with a cycle, a second spelling of A and
\* B linked twice from one page. The call's max_depth and max_urls, the urls
\* is_relevant_url rejects, those put in front of the list, and those whose
\* request raises vary.
LinkGraphs ==
    {[start |-> "A", max_depth |-> d, max_urls |-> m, irrelevant |-> i,
      front |-> f, broken |-> b,
      links |-> [u \in {"A", "A/", "B", "C"} |->
                   CASE u = "A"  -> <<"B", "A/", "C", "B">>
                     [] u = "A/" -> <<"C">>
                     [] u = "B"  -> <<"C", "A">>
                     [] OTHER    -> <<"B">>]] :
        d \in 0 .. 2, m \in 1 .. 4, i \in {{}, {"B"}}, f \in {{}, {"C"}},
        b \in {{}, {"B"}}}

LinkInit ==
    /\ graph \in LinkGraphs
    /\ to_visit = <<<<graph.start, 0>>>>
    /\ visited = {}
    /\ all_relevant_urls = <<>>
    /\ crawl_pc = "loop"
    /\ visit_log = <<>>
    /\ found_log = <<>>
    /\ MainOff
    /\ WriteOff
    /\ SchoolOff
    /\ ChunkOff

\* Mutant of Seen: the visited test left out.
SeenNever(n, seen) == FALSE

\* normalized in visited
Seen(n, seen) == n \in seen

\* The loop over the a tags of a page: a link whose normalized form is not
\* visited goes to the front of to_visit when it is a course url and to the
\* back when it is not.
RECURSIVE AddLinks(_, _, _, _)
AddLinks(q, ls, depth, seen) ==
    IF ls = <<>> THEN q
    ELSE AddLinks(IF Seen(NormalizeUrl(Spelling(Head(ls))), seen) THEN q
                  ELSE IF Head(ls) \in graph.front
                       THEN <<<<Head(ls), depth>>>> \o q
                       ELSE Append(q, <<Head(ls), depth>>),
                  Tail(ls), depth, seen)

\* One turn of the while loop.
CrawlTurn ==
    /\ crawl_pc = "loop"
    /\ to_visit # <<>>
    /\ Len(all_relevant_urls) < graph.max_urls
    /\ LET current_url == Head(to_visit)[1]
           depth == Head(to_visit)[2]
           n == NormalizeUrl(Spelling(current_url))
       IN IF Seen(n, visited) \/ depth > graph.max_depth
          THEN /\ to_visit' = Tail(to_visit)
               /\ UNCHANGED <<visited, all_relevant_urls, visit_log, found_log>>
          ELSE /\ visited' = visited \cup {n}
               /\ visit_log' = Append(visit_log, n)
               /\ IF current_url \in graph.irrelevant
                  THEN /\ to_visit' = Tail(to_visit)
                       /\ UNCHANGED <<all_relevant_urls, found_log>>
                  ELSE /\ all_relevant_urls' = Append(all_relevant_urls, current_url)
                       /\ found_log' = Append(found_log, depth)
                       /\ to_visit' =
                              IF depth < graph.max_depth /\ current_url \notin graph.broken
                              THEN AddLinks(Tail(to_visit), graph.links[current_url],
                                            depth + 1, visited')
                              ELSE Tail(to_visit)
    /\ UNCHANGED <<main_vars, write_vars, school_vars, chunk_vars, graph, crawl_pc>>

\* The while condition fails: return all_relevant_urls.
CrawlReturn ==
    /\ crawl_pc = "loop"
    /\ to_visit = <<>> \/ Len(all_relevant_urls) >= graph.max_urls
    /\ crawl_pc' = "returned"
    /\ UNCHANGED <<main_vars, write_vars, school_vars, chunk_vars, graph, to_visit, visited,
                   all_relevant_urls, visit_log, found_log>>

LinkNext == CrawlTurn \/ CrawlReturn

\* The function runs in one thread that nothing holds up.
LinkSpec == LinkInit /\ [][LinkNext]_vars /\ WF_vars(LinkNext)

(***************************************************************************)
(* track_school of scripts/scrape-courses.py, called by scrape_single_url  *)
(* from the threads of the pool.                                           *)
(***************************************************************************)

\* The threads of the pool (max_workers is 5 in the script).
PoolThreads == {1, 2}

\* school_info["name"] of the calls of one thread, "" for a page without one.
NameLists == [1 .. 2 -> {"", "x", "y"}]

SchoolInit ==
    /\ schools = <<>>
    /\ school_lock = {}
    /\ calls \in [PoolThreads -> NameLists]
    /\ track_pc = [t \in PoolThreads |-> "call"]
    /\ school_id = [t \in PoolThreads |-> 0]
    /\ returned = <<>>
    /\ MainOff
    /\ WriteOff
    /\ LinkOff
    /\ ChunkOff

\* Mutant of LockIsFree: a lock that excludes no one.
LockAlwaysFree == TRUE

\* Whether 'with self.lock' can be entered.
LockIsFree == school_lock = {}

\* The start of a call: None for an empty name, else 'with self.lock'.
EnterTrack(t) ==
    /\ track_pc[t] = "call"
    /\ calls[t] # <<>>
    /\ IF Head(calls[t]) = ""
       THEN /\ returned' = Append(returned, <<t, "", None>>)
            /\ calls' = [calls EXCEPT ![t] = Tail(@)]
            /\ UNCHANGED <<school_lock, track_pc>>
       ELSE /\ LockIsFree
            /\ school_lock' = school_lock \cup {t}
            /\ track_pc' = [track_pc EXCEPT ![t] = "check"]
            /\ UNCHANGED <<returned, calls>>
    /\ UNCHANGED <<main_vars, write_vars, link_vars, chunk_vars, schools, school_id>>

\* if school_name not in self.schools: school_id = f"school_{len(...) + 1}";
\* a name that is there is returned with its id.
CheckSchool(t) ==
    /\ track_pc[t] = "check"
    /\ LET school_name == Head(calls[t])
       IN IF school_name \notin DOMAIN schools
          THEN /\ school_id' = [school_id EXCEPT ![t] = Cardinality(DOMAIN schools) + 1]
               /\ track_pc' = [track_pc EXCEPT ![t] = "insert"]
               /\ UNCHANGED <<returned, calls, school_lock>>
          ELSE /\ returned' = Append(returned, <<t, school_name, schools[school_name]>>)
               /\ calls' = [calls EXCEPT ![t] = Tail(@)]
               /\ school_lock' = school_lock \ {t}
               /\ track_pc' = [track_pc EXCEPT ![t] = "call"]
               /\ UNCHANGED school_id
    /\ UNCHANGED <<main_vars, write_vars, link_vars, chunk_vars, schools>>

\* self.schools[school_name] = {...}; return self.schools[school_name]["id"].
InsertSchool(t) ==
    /\ track_pc[t] = "insert"
    /\ LET school_name == Head(calls[t])
       IN /\ schools' = [n \in DOMAIN schools \cup {school_name} |->
                            IF n = school_name THEN school_id[t] ELSE schools[n]]
          /\ returned' = Append(returned, <<t, school_name, school_id[t]>>)
    /\ calls' = [calls EXCEPT ![t] = Tail(@)]
    /\ school_lock' = school_lock \ {t}
    /\ track_pc' = [track_pc EXCEPT ![t] = "call"]
    /\ UNCHANGED <<main_vars, write_vars, link_vars, chunk_vars, school_id>>

SchoolNext ==
    \E t \in PoolThreads : EnterTrack(t) \/ CheckSchool(t) \/ InsertSchool(t)

SchoolSpec == SchoolInit /\ [][SchoolNext]_vars

(***************************************************************************)
(* chunk_text of agent.py                                                  *)
(***************************************************************************)

\* Longest text.
MaxTextLen == 7

\* The calls: every text of full stops, letters and blanks up to the longest,
\* chunk sizes 2 .. 6, and every overlap from 0 that is below half the size.
ChunkInit ==
    /\ text \in UNION {[1 .. n -> {".", "a", " "}] : n \in 0 .. MaxTextLen}
    /\ chunk_size \in 2 .. 6
    /\ overlap \in 0 .. 2
    /\ overlap < chunk_size \div 2
    /\ start = 0
    /\ chunks = <<>>
    /\ chunk_pc = "called"
    /\ windows = <<>>
    /\ MainOff
    /\ WriteOff
    /\ LinkOff
    /\ SchoolOff

\* text.rfind(c, from, to): the last index in [from, to) that holds c, or -1.
RFind(s, c, from, to) ==
    LET at == {i \in from .. to - 1 : s[i + 1] = c}
    IN IF at = {} THEN -1 ELSE CHOOSE i \in at : \A j \in at : j <= i

\* Mutant of PastHalfway: any full stop of the window is taken.
PastStart(last_period, from, size) == last_period > from

\* last_period > start + chunk_size // 2
PastHalfway(last_period, from, size) == last_period > from + size \div 2

\* The head of the function: a text that fits one chunk is returned whole.
ChunkEnter ==
    /\ chunk_pc = "called"
    /\ IF Len(text) <= chunk_size
       THEN /\ chunks' = <<[chunk_index |-> 0, total_chunks |-> 1,
                            start_char |-> 0, end_char |-> Len(text)]>>
            /\ chunk_pc' = "returned"
       ELSE /\ chunk_pc' = "loop"
            /\ UNCHANGED chunks
    /\ UNCHANGED <<main_vars, write_vars, link_vars, school_vars, text,
                   chunk_size, overlap, start, windows>>

\* One turn of the while loop: the window, cut back to the last full stop past
\* its half; a chunk unless the window is blank; the next start.
ChunkTurn ==
    /\ chunk_pc = "loop"
    /\ start < Len(text)
    /\ LET full == IF start + chunk_size < Len(text)
                   THEN start + chunk_size ELSE Len(text)
           last_period == RFind(text, ".", start, full)
           end == IF full < Len(text) /\ PastHalfway(last_period, start, chunk_size)
                  THEN last_period + 1 ELSE full
       IN /\ windows' = Append(windows, <<start, end>>)
          /\ chunks' = IF \E i \in start .. end - 1 : text[i + 1] # " "
                       THEN Append(chunks,
                                   [chunk_index |-> Len(chunks), total_chunks |-> 0,
                                    start_char |-> start, end_char |-> end])
                       ELSE chunks
          /\ start' = IF end < Len(text) THEN end - overlap ELSE end
    /\ UNCHANGED <<main_vars, write_vars, link_vars, school_vars, text,
                   chunk_size, overlap, chunk_pc>>

\* After the loop: total_chunks is set in every chunk, and the list returned.
ChunkReturn ==
    /\ chunk_pc = "loop"
    /\ start >= Len(text)
    /\ chunks' = [i \in DOMAIN chunks |-> [chunks[i] EXCEPT !.total_chunks = Len(chunks)]]
    /\ chunk_pc' = "returned"
    /\ UNCHANGED <<main_vars, write_vars, link_vars, school_vars, text,
                   chunk_size, overlap, start, windows>>

ChunkNext == ChunkEnter \/ ChunkTurn \/ ChunkReturn

\* The function runs in one thread that nothing holds up.
ChunkSpec == ChunkInit /\ [][ChunkNext]_vars /\ WF_vars(ChunkNext)

(***************************************************************************)
(* Properties                                                              *)
(***************************************************************************)

RECURSIVE SumStats(_)
SumStats(keys) ==
    IF keys = {} THEN 0
    ELSE LET k == CHOOSE x \in keys : TRUE
         IN stats[k] + SumStats(keys \ {k})

RECURSIVE CountSentinels(_)
CountSentinels(q) ==
    IF q = <<>> THEN 0
    ELSE (IF Head(q)[1] = None THEN 1 ELSE 0) + CountSentinels(Tail(q))

RECURSIVE SumGot(_)
SumGot(ws) ==
    IF ws = {} THEN 0
    ELSE LET w == CHOOSE x \in ws : TRUE
         IN sentinels_got[w] + SumGot(ws \ {w})

\* Records of the sink whose sourceUrl is u.
RecordsOf(u) == {i \in 1 .. Len(all_content) : all_content[i].sourceUrl = u}

\* Workers between the claim of a url and the end of its task.
Processing(u) ==
    {w \in Workers : task[w][1] = u
                     /\ pc[w] \in {"extract", "dedup", "append", "stats", "links"}}

\* C1: for every url the visited check-and-add succeeds at most once in a
\* session, whatever the interleaving of the workers, so the url is fetched at
\* most once and at most one worker is ever processing it.
C1SingleClaim ==
    \A u \in Urls :
        /\ claim_count[u] <= 1
        /\ fetch_count[u] <= claim_count[u]
        /\ Cardinality(Processing(u)) <= 1
        /\ (claim_count[u] = 1) = (u \in visited_urls)

\* C1 witness: a worker is at the visited check with a url that another worker
\* has claimed and is still processing.
C1Witness ==
    \E w1, w2 \in Workers :
        /\ w1 # w2
        /\ pc[w1] = "claim"
        /\ w2 \in Processing(task[w1][1])

\* Urls whose fingerprint check has been made.
Fingerprinted ==
    {u \in Urls : /\ fetch_count[u] = 1
                  /\ cfg.page[u].fetch = "ok"
                  /\ \A w \in Workers :
                        ~(task[w][1] = u /\ pc[w] \in {"extract", "dedup"})}

\* C2: any two distinct records of the sink have different content
\* fingerprints, and each is in content_hashes; every page whose fingerprint was
\* already there was counted as a duplicate and not appended (the pages checked
\* are the fingerprints stored plus the duplicates counted).
C2FingerprintUnique ==
    /\ \A i, j \in 1 .. Len(all_content) :
          i # j => all_content[i].hash # all_content[j].hash
    /\ \A i \in 1 .. Len(all_content) : all_content[i].hash \in content_hashes
    /\ Cardinality(Fingerprinted) = Cardinality(content_hashes) + stats["duplicates"]

\* C2 witness: a page with an already-seen fingerprint was counted as a
\* duplicate while the first page with that fingerprint is in the sink.
C2Witness ==
    /\ stats["duplicates"] = 1
    /\ \E u1, u2 \in Fingerprinted :
          /\ u1 # u2
          /\ cfg.page[u1].content = cfg.page[u2].content
          /\ RecordsOf(u1) # {}
          /\ RecordsOf(u2) = {}

\* C3: the frontier size never exceeds max_queue_size (seed enqueue, link
\* enqueue and sentinel injection alike are no-ops at capacity).
C3CapacityBound == Len(url_queue) <= cfg.max_queue_size

\* C4: with more seeds than max_queue_size, exactly max_queue_size of them are
\* ever enqueued.
C4SeedsCapped ==
    (Len(cfg.start_urls) > cfg.max_queue_size /\ ctrl # "SEEDING")
        => seeds_enqueued = cfg.max_queue_size

\* C5 as claimed, for the sessions whose seeds fit the frontier: the monitoring
\* loop is left through "frontier empty and no worker alive", never through
\* the stall or the capacity check.
C5OnlyComplete ==
    (Len(cfg.start_urls) <= cfg.max_queue_size /\ ctrl \in {"DRAINING", "STOPPED"})
        => exit_reason \notin {"stall", "capacity"}

\* C5 as amended: on a finite link graph, under fair scheduling, the session
\* reaches STOPPED (through whichever check of the monitoring loop fires first,
\* the stall and the capacity check included).
C5ReachesStopped == <>(ctrl = "STOPPED")

\* C5 witness: a session that is STOPPED after the stall check ended the
\* monitoring loop with tasks still in the frontier.
C5Witness ==
    /\ ctrl = "STOPPED"
    /\ exit_reason = "stall"
    /\ \E i \in 1 .. Len(url_queue) : url_queue[i][1] # None

\* C6: a worker leaves its loop only by a poison pill or by a dequeue timeout
\* on the empty frontier; an exception while it processes a task never ends it.
C6WorkerSurvives ==
    \A w \in Workers : exit_by[w] \in {None, "sentinel", "timeout"}

\* C7: whenever no worker is inside the accept section, the total counter
\* equals the number of records in the sink and the sum of the category
\* counters.
C7CountersAgree ==
    lock = {} =>
        /\ stats["total"] = Len(all_content)
        /\ stats["total"] = SumStats(Categories)

\* C8, for the executions that leave the monitoring loop through "frontier empty
\* and no worker alive": on the site of the scenario the final sink holds
\* exactly one record for each of A, B, C, visited_urls has three members and no
\* duplicate was counted.
C8ExactCoverage ==
    (/\ cfg.name \in {"coverage", "coverage-default"}
     /\ ctrl = "STOPPED"
     /\ exit_reason = "complete")
        => /\ Len(all_content) = Cardinality(Urls)
           /\ \A u \in Urls : Cardinality(RecordsOf(u)) = 1
           /\ Cardinality(visited_urls) = Cardinality(Urls)
           /\ stats["duplicates"] = 0

C10Draining ==
    /\ [](ctrl \in {"SEEDING", "RUNNING"} => sentinels_put = 0 /\ joined = 0)
    /\ [](ctrl = "STOPPED" =>
             sentinels_put = cfg.max_threads /\ joined = cfg.max_threads)
    /\ [](joined > 0 => sentinels_put = cfg.max_threads)
    /\ [](CountSentinels(url_queue) + SumGot(Workers) = sentinels_put)
    /\ (ctrl = "DRAINING") ~> (ctrl = "STOPPED")

\* C10 witness: the session is STOPPED although a join returned with its
\* thread alive and that thread has still not ended.
C10Witness ==
    /\ ctrl = "STOPPED"
    /\ \E w \in join_timeouts : pc[w] # "done"

\* The five conditions of the monitoring loop as they stand at a poll: the
\* reads of the pre-state and the stall counter as this poll leaves it.
LeaveCondition ==
    \/ Len(url_queue) = 0 /\ \A w \in Workers : pc[w] = "done"
    \/ Cardinality(visited_urls) >= cfg.max_pages
    \/ Len(url_queue) >= cfg.max_queue_size
    \/ stats["total"] >= cfg.target
    \/ stall_count' > cfg.stall

\* C11: at each poll the controller leaves the monitoring loop if and only if
\* one of the five conditions holds at that poll (frontier empty and no worker
\* alive, visited urls >= max_pages, frontier size >= max_queue_size, total >=
\* target, stall counter past its tolerance); the stall counter never passes
\* its tolerance while the loop goes on.
C11PollDecision ==
    [][(/\ ctrl = "RUNNING"
        /\ ctrl' \in {"RUNNING", "DRAINING"}
        /\ <<ctrl, stall_count, last_total>>' # <<ctrl, stall_count, last_total>>)
          => /\ (ctrl' = "DRAINING") <=> LeaveCondition
             /\ (ctrl' = "RUNNING") => (exit_reason' = None /\ stall_count' <= cfg.stall)
             /\ (ctrl' = "DRAINING") => exit_reason' # None]_vars

\* C11 witness: a poll left the loop through the page limit alone: a worker is
\* still alive, the frontier is below its limit and the target is not reached.
C11Witness ==
    /\ ctrl = "DRAINING"
    /\ sentinels_put = 0
    /\ exit_reason = "max_pages"
    /\ \E w \in Workers : pc[w] # "done"
    /\ Len(url_queue) < cfg.max_queue_size
    /\ stats["total"] < cfg.target


\* C12 as claimed: a session that has ended has made its final write: the
\* crawler's output file holds the sink as the final save found it, and the
\* incremental scraper has written its output and its fingerprint store in the
\* run that returned.
C12FinalWriteAlways ==
    /\ final_save = "done" => \A i \in 1 .. Len(output_file) :
                                  i <= Len(all_content) /\ output_file[i] = all_content[i]
    /\ agent_pc = "returned" =>
          /\ json_file = category_content
          /\ state_file # <<>>
          /\ state_file[1].last_run = run

\* C12 as amended: whichever check ended the monitoring loop, the crawler goes
\* on to its final save, which fails only when the disk refuses the write and
\* otherwise leaves on disk every record accepted up to it. The incremental
\* scraper always returns from the category; it then writes its output and its
\* fingerprint store (all it accepted, and the state it holds) only when it
\* accepted at least one record, and writes neither file when it accepted
\* none.
C12FinalWrite ==
    /\ (ctrl = "DRAINING") ~> (final_save \in {"done", "failed"})
    /\ [](final_save = "failed" => cfg.disk_faulty)
    /\ [][(final_save = "pending" /\ final_save' = "done")
             => output_file' = all_content]_vars
    /\ (agent_pc = "loop") ~> (agent_pc = "returned")
    /\ [][(agent_pc = "loop" /\ agent_pc' = "returned")
             => IF category_content # <<>>
                THEN /\ json_file' = category_content
                     /\ state_file' = <<state'>>
                     /\ state'.last_run = run
                     /\ state'.content_hashes = state.content_hashes
                ELSE UNCHANGED <<json_file, state_file, state>>]_vars

\* C12 witness: the second run has returned with every page unchanged: nothing
\* was accepted and nothing written, and the state file is the one of run 1.
C12Witness ==
    /\ run = 2
    /\ agent_pc = "returned"
    /\ category_content = <<>>
    /\ skipped_unchanged > 0
    /\ state_file # <<>>
    /\ state_file[1].last_run = 1

\* C13: after a user interrupt during RUNNING the session has put one poison
\* pill per worker, joined every thread, and written everything accepted so
\* far to the output, also when nothing was accepted.
C13InterruptDrains ==
    ctrl = "INTERRUPTED" =>
        /\ sentinels_put = cfg.max_threads
        /\ joined = cfg.max_threads
        /\ final_save = "done"
        /\ output_file = all_content

\* C14: while a session is running, the records of the sink that are not in
\* the last file written are at most save_progress_every (here for the result
\* loop of scrape-courses.py: self.courses against the courses file).
C14BoundedLoss ==
    courses_pc = "loop" => Len(courses) <= Len(courses_file) + CoursesSaveEvery

\* C15: when a later run of the incremental scraper has returned, every url
\* that was fetched successfully in an earlier run and whose body is the same
\* as in the run before gave no record in this run and was counted once as
\* unchanged, whether or not its content was kept before.
C15IncrementalSkip ==
    (agent_pc = "returned" /\ run > 1) =>
        LET same == {u \in fetched_before : BodyAt(u, run) = BodyAt(u, run - 1)}
        IN /\ \A i \in DOMAIN category_content : category_content[i].url \notin same
           /\ skipped_unchanged = Cardinality(same)

\* C16: normalize_url applied to its own result gives that result again.
C16Idempotent ==
    Len(normalized) = 2 => normalized[2] = normalized[1]

\* C17: a url and a variant of it that differs only by a fragment, by a
\* trailing slash or by query parameters outside the retained names have the
\* same normalize_url result.
C17Equivalent ==
    variant_normalized # <<>> => variant_normalized[1] = NormalizeUrl(raw_url[1])

\* C18: in the multi-worker crawler no two urls with the same normalized form
\* are both claimed in one session.
C18NormalizedVisited ==
    \A u \in Urls, v \in Urls :
        (u # v /\ NormalizeUrl(Spelling(u)) = NormalizeUrl(Spelling(v)))
            => ~(claim_count[u] > 0 /\ claim_count[v] > 0)

\* C19: a dequeue of the crawler's frontier never returns a task whose url
\* matches no priority pattern while a task whose url matches one is in the
\* frontier.
C19PriorityFirst ==
    [][(/\ url_queue # <<>>
        /\ url_queue' = Tail(url_queue)
        /\ Head(url_queue)[1] # None
        /\ Head(url_queue)[1] \notin cfg.priority)
           => \A i \in 2 .. Len(url_queue) : url_queue[i][1] \notin cfg.priority]_vars

\* C20: retry_request makes at most max_retries requests, and an exception
\* reaches its caller only after max_retries requests, with a wait of 2^(k-1)
\* seconds after the k-th failed request for every k < max_retries.
C20RetryBackoff ==
    /\ requests_made <= max_retries
    /\ retry_result \in {"raised", "UnboundLocalError"} =>
          /\ requests_made = max_retries
          /\ waits = [k \in 1 .. max_retries - 1 |-> 2 ^ (k - 1)]

\* C21: in the incremental scraper, a url whose request gives a 404 response
\* is requested once, is recorded once as "Failed after all retries" (the None
\* of retry_request) and gives no record; a run that returns has requested
\* every url of its list, whatever came before it in the loop.
C21NotFoundTerminal ==
    /\ agent_pc = "returned" =>
          \A k \in DOMAIN site.urls : \E i \in DOMAIN requested :
              NormalizeUrl(Spelling(requested[i])) = NormalizeUrl(Spelling(site.urls[k]))
    /\ \A j \in 1 .. next_url - 1 :
        LET u == site.urls[j]
        IN (/\ site.page[u].fetch = "404"
            /\ \A k \in 1 .. j - 1 :
                  NormalizeUrl(Spelling(site.urls[k])) # NormalizeUrl(Spelling(u)))
           => /\ Cardinality({i \in DOMAIN requested : requested[i] = u}) = 1
              /\ Cardinality({i \in DOMAIN errors : errors[i].url = u}) = 1
              /\ \A i \in DOMAIN errors :
                    errors[i].url = u => errors[i].error = "Failed after all retries"
              /\ \A i \in DOMAIN category_content : category_content[i].url # u

\* A run in which A gave a 404 and B, after it in the loop, was accepted.
C21Witness ==
    /\ agent_pc = "returned"
    /\ site.page["A"].fetch = "404"
    /\ requested = <<"A", "B">>
    /\ \E i \in DOMAIN category_content : category_content[i].url = "B"

\* C22: a checkpoint write that fails ends no worker: a worker that is in the
\* accept section with a record whose category has a counter does not leave
\* its loop from there.
C22WriteFailureSurvivable ==
    [][\A w \in Workers :
          (pc[w] = "stats" /\ HasStatsKey(cfg.page[task[w][1]].category))
              => pc'[w] # "done"]_vars

\* C23: at every point of a checkpoint write, each a point at which the
\* process may end, the file holds the complete previous document or the
\* complete new one.
C23AtomicReplace ==
    write_pc # None => disk \in {old_contents, new_contents}

\* C24: when no worker is in the middle of a task, the content-hash set is the
\* set of the fingerprints of the records in the sink.
C24HashesAccepted ==
    (\A w \in Workers : pc[w] \in {"unstarted", "get", "done"}) =>
        content_hashes = {all_content[i].hash : i \in DOMAIN all_content}

\* C25: no worker is ever processing a task deeper than max_depth; the seeding
\* step leaves only tasks of depth 0 in the frontier; a task put by a worker
\* carries the depth of the worker's task plus 1; and a worker that discards
\* its task for its depth leaves the visited set as it was.
C25DepthDiscipline ==
    /\ [](\A w \in Workers :
             pc[w] \in {"extract", "dedup", "append", "stats", "links"}
                 => task[w][2] <= cfg.max_depth)
    /\ [][/\ ctrl = "SEEDING" =>
                \A i \in DOMAIN url_queue' : url_queue'[i][2] = 0
          /\ (/\ ctrl # "SEEDING"
              /\ Len(url_queue') > Len(url_queue)
              /\ url_queue'[Len(url_queue')][1] # None)
                 => \E w \in Workers :
                       /\ pc[w] = "links"
                       /\ url_queue'[Len(url_queue')]
                              = <<Head(links[w]), task[w][2] + 1>>
          /\ \A w \in Workers :
                (pc[w] = "claim" /\ task[w][2] > cfg.max_depth /\ pc'[w] # "claim")
                    => (pc'[w] = "get" /\ visited_urls' = visited_urls)]_vars

\* A worker has discarded a task for its depth: it is back at get(), and the
\* url of the task is not in the visited set.
C25Witness ==
    \E w \in Workers :
        /\ pc[w] = "get"
        /\ task[w][1] \in Urls
        /\ task[w][2] > cfg.max_depth
        /\ task[w][1] \notin visited_urls

\* C26: the stall stop fires exactly when the count of consecutive polls that
\* saw no new record reaches the tolerance: the monitoring loop is not running
\* with the tolerance reached, and a session stopped for a stall has counted
\* exactly that many polls.
C26StallExact ==
    /\ ctrl = "RUNNING" => stall_count < cfg.stall
    /\ exit_reason = "stall" => stall_count = cfg.stall

\* C27: from the final save on the sink, the visited set and the frontier no
\* longer change, so that the output written by the final save is the sink.
C27SinkStable ==
    /\ final_save = "done" => output_file = all_content
    /\ [][final_save # "pending" =>
             /\ all_content' = all_content
             /\ visited_urls' = visited_urls
             /\ Len(url_queue') <= Len(url_queue)]_vars

\* C28: crawl_for_links returns; its list never holds more than max_urls
\* urls, each was met at a depth of at most max_depth, and their normalized
\* forms differ pairwise; visited only grows, and no normalized url is added
\* to it twice.
C28LinkCrawl ==
    /\ [](/\ Len(all_relevant_urls) <= graph.max_urls
          /\ \A i \in DOMAIN found_log : found_log[i] <= graph.max_depth
          /\ \A i \in DOMAIN all_relevant_urls, j \in DOMAIN all_relevant_urls :
                i # j => NormalizeUrl(Spelling(all_relevant_urls[i]))
                             # NormalizeUrl(Spelling(all_relevant_urls[j]))
          /\ \A i \in DOMAIN visit_log, j \in DOMAIN visit_log :
                i # j => visit_log[i] # visit_log[j])
    /\ [][visited \subseteq visited']_vars
    /\ <>(crawl_pc = "returned")

\* The call has returned after a turn met a url that was in to_visit more than
\* once: B, linked twice from A, was found once, and the second spelling of A
\* was passed over.
C28Witness ==
    /\ crawl_pc = "returned"
    /\ graph.front = {}
    /\ all_relevant_urls = <<"A", "B", "C">>
    /\ visit_log = <<<<"A">>, <<"B">>, <<"C">>>>

\* C29: whatever the interleaving of the pool threads, different school names
\* have different ids, the ids in use are school_1 .. school_n for the n names
\* tracked, and every call returns the id of its name (None for no name), the
\* same at every call.
C29SchoolIds ==
    /\ \A n \in DOMAIN schools, m \in DOMAIN schools :
          n # m => schools[n] # schools[m]
    /\ {schools[n] : n \in DOMAIN schools} = 1 .. Cardinality(DOMAIN schools)
    /\ \A i \in DOMAIN returned :
          /\ returned[i][2] = "" => returned[i][3] = None
          /\ returned[i][2] # "" =>
                /\ returned[i][2] \in DOMAIN schools
                /\ returned[i][3] = schools[returned[i][2]]

\* Both threads have finished; they asked for two names in opposite orders,
\* and each name came back with one id to both.
C29Witness ==
    /\ Len(returned) = 4
    /\ Cardinality(DOMAIN schools) = 2
    /\ \E i \in DOMAIN returned, j \in DOMAIN returned :
          /\ returned[i][1] # returned[j][1]
          /\ returned[i][2] = returned[j][2]
          /\ returned[i][2] # ""
          /\ returned[i][3] = returned[j][3]
    /\ returned[1][1] # returned[2][1]

\* C30: with an overlap below half the chunk size chunk_text returns; the
\* starts of its windows increase strictly; when it has returned every index
\* of the text lies in a window (in the one chunk, for a text returned whole),
\* and the chunks carry the indices 0 .. n-1 and total_chunks n.
C30ChunkText ==
    /\ [](\A i \in 1 .. Len(windows) - 1 : windows[i + 1][1] > windows[i][1])
    /\ [](chunk_pc = "returned" =>
             /\ \A k \in 0 .. Len(text) - 1 :
                   \/ \E i \in DOMAIN windows : windows[i][1] <= k /\ k < windows[i][2]
                   \/ /\ windows = <<>>
                      /\ chunks[1].start_char <= k /\ k < chunks[1].end_char
             /\ \A i \in DOMAIN chunks :
                   /\ chunks[i].chunk_index = i - 1
                   /\ chunks[i].total_chunks = Len(chunks))
    /\ <>(chunk_pc = "returned")

\* A call with an overlap of 2 has returned after a turn that cut its window
\* back to a full stop and stepped back by the overlap.
C30Witness ==
    /\ chunk_pc = "returned"
    /\ Len(windows) >= 2
    /\ overlap = 2
    /\ \E i \in DOMAIN windows :
          /\ windows[i][2] < Len(text)
          /\ windows[i][2] - windows[i][1] < chunk_size

=============================================================================
